---- MODULE Spec2Model ----
(***************************************************************************)
(* A model of the SAP HANA B1 query assistant: one invocation of the       *)
(* /query endpoint (src/app.py) running SAPQueryAssistant.process_query    *)
(* (src/sap_query_assistant.py) against its two collaborators, the         *)
(* completion service and the data store.                                  *)
(*                                                                         *)
(* A text is the sequence of its characters' code points, so that          *)
(* str.strip(), str.lower(), repr(), int() and string concatenation are    *)
(* computed character by character.  An Optional value is a sequence of    *)
(* length 0 (None) or 1.                                                   *)
(***************************************************************************)
EXTENDS Integers, Sequences, FiniteSets, TLC

VARIABLES
    pc,             \* position of the invocation in process_query / _execute_query
    query,          \* request.query
    execute_query,  \* request.execute_query
    sql_query,      \* local sql_query of process_query
    viz_type,       \* local viz_type of process_query
    results,        \* local results of process_query (Optional)
    error,          \* local error of process_query (Optional)
    response,       \* the QueryResponse returned (Optional)
    failure,        \* the detail of the HTTPException raised (Optional)
    db,             \* the data store as seen by the driver: resources and statements
    columns,        \* local columns of _execute_query
    rows,           \* local results of _execute_query, the records built so far
    calls,          \* the external calls made by this invocation, in order
    raw             \* what the collaborators answered (kept for the properties)

vars == <<pc, query, execute_query, sql_query, viz_type, results, error,
          response, failure, db, columns, rows, calls, raw>>

----------------------------------------------------------------------------
(* Bounds of the model.                                                    *)

MaxCols == 2
MaxRows == 2

----------------------------------------------------------------------------
(* Texts.  A character is its code point, ord(c).                          *)

None == <<>>
Some(x) == <<x>>

Min(a, b) == IF a < b THEN a ELSE b

\* c lies in one of the ranges <<first, last>> of R
InRanges(c, R) == \E r \in R : r[1] <= c /\ c <= r[2]

\* The characters str.strip() removes when called without an argument: the
\* 29 characters c with c.isspace(), which are U+0009-U+000D, U+001C-U+0020,
\* U+0085, U+00A0, U+1680, U+2000-U+200A, U+2028, U+2029, U+202F, U+205F
\* and U+3000.
Whitespace ==
    (9..13) \cup (28..32) \cup {133, 160, 5760} \cup (8192..8202)
        \cup {8232, 8233, 8239, 8287, 12288}

\* str.lstrip()
lstrip(s) ==
    LET n == Len(s)
        k == CHOOSE i \in 1..(n + 1) :
                 /\ i = n + 1 \/ s[i] \notin Whitespace
                 /\ \A j \in 1..(i - 1) : s[j] \in Whitespace
    IN  SubSeq(s, k, n)

\* str.rstrip()
rstrip(s) ==
    LET n == Len(s)
        k == CHOOSE i \in 0..n :
                 /\ i = 0 \/ s[i] \notin Whitespace
                 /\ \A j \in (i + 1)..n : s[j] \in Whitespace
    IN  SubSeq(s, 1, k)

\* str.strip()
strip(s) == rstrip(lstrip(s))

\* The simple lower-case mappings of the Unicode database (version 14):
\* <<first, last, step, delta>> maps every code point first, first + step,
\* ..., last to itself plus delta.  <<65, 90, 1, 32>> is A-Z.
LowerSegments ==
    {
      <<65, 90, 1, 32>>, <<192, 214, 1, 32>>, <<216, 222, 1, 32>>,
      <<256, 302, 2, 1>>, <<306, 310, 2, 1>>, <<313, 327, 2, 1>>,
      <<330, 374, 2, 1>>, <<376, 376, 1, -121>>, <<377, 381, 2, 1>>,
      <<385, 385, 1, 210>>, <<386, 388, 2, 1>>, <<390, 390, 1, 206>>,
      <<391, 391, 1, 1>>, <<393, 394, 1, 205>>, <<395, 395, 1, 1>>,
      <<398, 398, 1, 79>>, <<399, 399, 1, 202>>, <<400, 400, 1, 203>>,
      <<401, 401, 1, 1>>, <<403, 403, 1, 205>>, <<404, 404, 1, 207>>,
      <<406, 406, 1, 211>>, <<407, 407, 1, 209>>, <<408, 408, 1, 1>>,
      <<412, 412, 1, 211>>, <<413, 413, 1, 213>>, <<415, 415, 1, 214>>,
      <<416, 420, 2, 1>>, <<422, 422, 1, 218>>, <<423, 423, 1, 1>>,
      <<425, 425, 1, 218>>, <<428, 428, 1, 1>>, <<430, 430, 1, 218>>,
      <<431, 431, 1, 1>>, <<433, 434, 1, 217>>, <<435, 437, 2, 1>>,
      <<439, 439, 1, 219>>, <<440, 440, 1, 1>>, <<444, 444, 1, 1>>,
      <<452, 452, 1, 2>>, <<453, 453, 1, 1>>, <<455, 455, 1, 2>>,
      <<456, 456, 1, 1>>, <<458, 458, 1, 2>>, <<459, 475, 2, 1>>,
      <<478, 494, 2, 1>>, <<497, 497, 1, 2>>, <<498, 500, 2, 1>>,
      <<502, 502, 1, -97>>, <<503, 503, 1, -56>>, <<504, 542, 2, 1>>,
      <<544, 544, 1, -130>>, <<546, 562, 2, 1>>, <<570, 570, 1, 10795>>,
      <<571, 571, 1, 1>>, <<573, 573, 1, -163>>, <<574, 574, 1, 10792>>,
      <<577, 577, 1, 1>>, <<579, 579, 1, -195>>, <<580, 580, 1, 69>>,
      <<581, 581, 1, 71>>, <<582, 590, 2, 1>>, <<880, 882, 2, 1>>,
      <<886, 886, 1, 1>>, <<895, 895, 1, 116>>, <<902, 902, 1, 38>>,
      <<904, 906, 1, 37>>, <<908, 908, 1, 64>>, <<910, 911, 1, 63>>,
      <<913, 929, 1, 32>>, <<931, 939, 1, 32>>, <<975, 975, 1, 8>>,
      <<984, 1006, 2, 1>>, <<1012, 1012, 1, -60>>, <<1015, 1015, 1, 1>>,
      <<1017, 1017, 1, -7>>, <<1018, 1018, 1, 1>>, <<1021, 1023, 1, -130>>,
      <<1024, 1039, 1, 80>>, <<1040, 1071, 1, 32>>, <<1120, 1152, 2, 1>>,
      <<1162, 1214, 2, 1>>, <<1216, 1216, 1, 15>>, <<1217, 1229, 2, 1>>,
      <<1232, 1326, 2, 1>>, <<1329, 1366, 1, 48>>, <<4256, 4293, 1, 7264>>,
      <<4295, 4295, 1, 7264>>, <<4301, 4301, 1, 7264>>,
      <<5024, 5103, 1, 38864>>, <<5104, 5109, 1, 8>>,
      <<7312, 7354, 1, -3008>>, <<7357, 7359, 1, -3008>>,
      <<7680, 7828, 2, 1>>, <<7838, 7838, 1, -7615>>, <<7840, 7934, 2, 1>>,
      <<7944, 7951, 1, -8>>, <<7960, 7965, 1, -8>>, <<7976, 7983, 1, -8>>,
      <<7992, 7999, 1, -8>>, <<8008, 8013, 1, -8>>, <<8025, 8031, 2, -8>>,
      <<8040, 8047, 1, -8>>, <<8072, 8079, 1, -8>>, <<8088, 8095, 1, -8>>,
      <<8104, 8111, 1, -8>>, <<8120, 8121, 1, -8>>, <<8122, 8123, 1, -74>>,
      <<8124, 8124, 1, -9>>, <<8136, 8139, 1, -86>>, <<8140, 8140, 1, -9>>,
      <<8152, 8153, 1, -8>>, <<8154, 8155, 1, -100>>, <<8168, 8169, 1, -8>>,
      <<8170, 8171, 1, -112>>, <<8172, 8172, 1, -7>>,
      <<8184, 8185, 1, -128>>, <<8186, 8187, 1, -126>>,
      <<8188, 8188, 1, -9>>, <<8486, 8486, 1, -7517>>,
      <<8490, 8490, 1, -8383>>, <<8491, 8491, 1, -8262>>,
      <<8498, 8498, 1, 28>>, <<8544, 8559, 1, 16>>, <<8579, 8579, 1, 1>>,
      <<9398, 9423, 1, 26>>, <<11264, 11311, 1, 48>>, <<11360, 11360, 1, 1>>,
      <<11362, 11362, 1, -10743>>, <<11363, 11363, 1, -3814>>,
      <<11364, 11364, 1, -10727>>, <<11367, 11371, 2, 1>>,
      <<11373, 11373, 1, -10780>>, <<11374, 11374, 1, -10749>>,
      <<11375, 11375, 1, -10783>>, <<11376, 11376, 1, -10782>>,
      <<11378, 11378, 1, 1>>, <<11381, 11381, 1, 1>>,
      <<11390, 11391, 1, -10815>>, <<11392, 11490, 2, 1>>,
      <<11499, 11501, 2, 1>>, <<11506, 11506, 1, 1>>, <<42560, 42604, 2, 1>>,
      <<42624, 42650, 2, 1>>, <<42786, 42798, 2, 1>>, <<42802, 42862, 2, 1>>,
      <<42873, 42875, 2, 1>>, <<42877, 42877, 1, -35332>>,
      <<42878, 42886, 2, 1>>, <<42891, 42891, 1, 1>>,
      <<42893, 42893, 1, -42280>>, <<42896, 42898, 2, 1>>,
      <<42902, 42920, 2, 1>>, <<42922, 42922, 1, -42308>>,
      <<42923, 42923, 1, -42319>>, <<42924, 42924, 1, -42315>>,
      <<42925, 42925, 1, -42305>>, <<42926, 42926, 1, -42308>>,
      <<42928, 42928, 1, -42258>>, <<42929, 42929, 1, -42282>>,
      <<42930, 42930, 1, -42261>>, <<42931, 42931, 1, 928>>,
      <<42932, 42946, 2, 1>>, <<42948, 42948, 1, -48>>,
      <<42949, 42949, 1, -42307>>, <<42950, 42950, 1, -35384>>,
      <<42951, 42953, 2, 1>>, <<42960, 42960, 1, 1>>, <<42966, 42968, 2, 1>>,
      <<42997, 42997, 1, 1>>, <<65313, 65338, 1, 32>>,
      <<66560, 66599, 1, 40>>, <<66736, 66771, 1, 40>>,
      <<66928, 66938, 1, 39>>, <<66940, 66954, 1, 39>>,
      <<66956, 66962, 1, 39>>, <<66964, 66965, 1, 39>>,
      <<68736, 68786, 1, 64>>, <<71840, 71871, 1, 32>>,
      <<93760, 93791, 1, 32>>, <<125184, 125217, 1, 34>> }

\* The characters with the Unicode property Case_Ignorable, as ranges.
CaseIgnorableRanges ==
    {
      <<39, 39>>, <<46, 46>>, <<58, 58>>, <<94, 94>>, <<96, 96>>,
      <<168, 168>>, <<173, 173>>, <<175, 175>>, <<180, 180>>, <<183, 184>>,
      <<688, 879>>, <<884, 885>>, <<890, 890>>, <<900, 901>>, <<903, 903>>,
      <<1155, 1161>>, <<1369, 1369>>, <<1375, 1375>>, <<1425, 1469>>,
      <<1471, 1471>>, <<1473, 1474>>, <<1476, 1477>>, <<1479, 1479>>,
      <<1524, 1524>>, <<1536, 1541>>, <<1552, 1562>>, <<1564, 1564>>,
      <<1600, 1600>>, <<1611, 1631>>, <<1648, 1648>>, <<1750, 1757>>,
      <<1759, 1768>>, <<1770, 1773>>, <<1807, 1807>>, <<1809, 1809>>,
      <<1840, 1866>>, <<1958, 1968>>, <<2027, 2037>>, <<2042, 2042>>,
      <<2045, 2045>>, <<2070, 2093>>, <<2137, 2139>>, <<2184, 2184>>,
      <<2192, 2193>>, <<2200, 2207>>, <<2249, 2306>>, <<2362, 2362>>,
      <<2364, 2364>>, <<2369, 2376>>, <<2381, 2381>>, <<2385, 2391>>,
      <<2402, 2403>>, <<2417, 2417>>, <<2433, 2433>>, <<2492, 2492>>,
      <<2497, 2500>>, <<2509, 2509>>, <<2530, 2531>>, <<2558, 2558>>,
      <<2561, 2562>>, <<2620, 2620>>, <<2625, 2626>>, <<2631, 2632>>,
      <<2635, 2637>>, <<2641, 2641>>, <<2672, 2673>>, <<2677, 2677>>,
      <<2689, 2690>>, <<2748, 2748>>, <<2753, 2757>>, <<2759, 2760>>,
      <<2765, 2765>>, <<2786, 2787>>, <<2810, 2815>>, <<2817, 2817>>,
      <<2876, 2876>>, <<2879, 2879>>, <<2881, 2884>>, <<2893, 2893>>,
      <<2901, 2902>>, <<2914, 2915>>, <<2946, 2946>>, <<3008, 3008>>,
      <<3021, 3021>>, <<3072, 3072>>, <<3076, 3076>>, <<3132, 3132>>,
      <<3134, 3136>>, <<3142, 3144>>, <<3146, 3149>>, <<3157, 3158>>,
      <<3170, 3171>>, <<3201, 3201>>, <<3260, 3260>>, <<3263, 3263>>,
      <<3270, 3270>>, <<3276, 3277>>, <<3298, 3299>>, <<3328, 3329>>,
      <<3387, 3388>>, <<3393, 3396>>, <<3405, 3405>>, <<3426, 3427>>,
      <<3457, 3457>>, <<3530, 3530>>, <<3538, 3540>>, <<3542, 3542>>,
      <<3633, 3633>>, <<3636, 3642>>, <<3654, 3662>>, <<3761, 3761>>,
      <<3764, 3772>>, <<3782, 3782>>, <<3784, 3789>>, <<3864, 3865>>,
      <<3893, 3893>>, <<3895, 3895>>, <<3897, 3897>>, <<3953, 3966>>,
      <<3968, 3972>>, <<3974, 3975>>, <<3981, 3991>>, <<3993, 4028>>,
      <<4038, 4038>>, <<4141, 4144>>, <<4146, 4151>>, <<4153, 4154>>,
      <<4157, 4158>>, <<4184, 4185>>, <<4190, 4192>>, <<4209, 4212>>,
      <<4226, 4226>>, <<4229, 4230>>, <<4237, 4237>>, <<4253, 4253>>,
      <<4348, 4348>>, <<4957, 4959>>, <<5906, 5908>>, <<5938, 5939>>,
      <<5970, 5971>>, <<6002, 6003>>, <<6068, 6069>>, <<6071, 6077>>,
      <<6086, 6086>>, <<6089, 6099>>, <<6103, 6103>>, <<6109, 6109>>,
      <<6155, 6159>>, <<6211, 6211>>, <<6277, 6278>>, <<6313, 6313>>,
      <<6432, 6434>>, <<6439, 6440>>, <<6450, 6450>>, <<6457, 6459>>,
      <<6679, 6680>>, <<6683, 6683>>, <<6742, 6742>>, <<6744, 6750>>,
      <<6752, 6752>>, <<6754, 6754>>, <<6757, 6764>>, <<6771, 6780>>,
      <<6783, 6783>>, <<6823, 6823>>, <<6832, 6862>>, <<6912, 6915>>,
      <<6964, 6964>>, <<6966, 6970>>, <<6972, 6972>>, <<6978, 6978>>,
      <<7019, 7027>>, <<7040, 7041>>, <<7074, 7077>>, <<7080, 7081>>,
      <<7083, 7085>>, <<7142, 7142>>, <<7144, 7145>>, <<7149, 7149>>,
      <<7151, 7153>>, <<7212, 7219>>, <<7222, 7223>>, <<7288, 7293>>,
      <<7376, 7378>>, <<7380, 7392>>, <<7394, 7400>>, <<7405, 7405>>,
      <<7412, 7412>>, <<7416, 7417>>, <<7468, 7530>>, <<7544, 7544>>,
      <<7579, 7679>>, <<8125, 8125>>, <<8127, 8129>>, <<8141, 8143>>,
      <<8157, 8159>>, <<8173, 8175>>, <<8189, 8190>>, <<8203, 8207>>,
      <<8216, 8217>>, <<8228, 8228>>, <<8231, 8231>>, <<8234, 8238>>,
      <<8288, 8292>>, <<8294, 8303>>, <<8305, 8305>>, <<8319, 8319>>,
      <<8336, 8348>>, <<8400, 8432>>, <<11388, 11389>>, <<11503, 11505>>,
      <<11631, 11631>>, <<11647, 11647>>, <<11744, 11775>>, <<11823, 11823>>,
      <<12293, 12293>>, <<12330, 12333>>, <<12337, 12341>>, <<12347, 12347>>,
      <<12441, 12446>>, <<12540, 12542>>, <<40981, 40981>>, <<42232, 42237>>,
      <<42508, 42508>>, <<42607, 42610>>, <<42612, 42621>>, <<42623, 42623>>,
      <<42652, 42655>>, <<42736, 42737>>, <<42752, 42785>>, <<42864, 42864>>,
      <<42888, 42890>>, <<42994, 42996>>, <<43000, 43001>>, <<43010, 43010>>,
      <<43014, 43014>>, <<43019, 43019>>, <<43045, 43046>>, <<43052, 43052>>,
      <<43204, 43205>>, <<43232, 43249>>, <<43263, 43263>>, <<43302, 43309>>,
      <<43335, 43345>>, <<43392, 43394>>, <<43443, 43443>>, <<43446, 43449>>,
      <<43452, 43453>>, <<43471, 43471>>, <<43493, 43494>>, <<43561, 43566>>,
      <<43569, 43570>>, <<43573, 43574>>, <<43587, 43587>>, <<43596, 43596>>,
      <<43632, 43632>>, <<43644, 43644>>, <<43696, 43696>>, <<43698, 43700>>,
      <<43703, 43704>>, <<43710, 43711>>, <<43713, 43713>>, <<43741, 43741>>,
      <<43756, 43757>>, <<43763, 43764>>, <<43766, 43766>>, <<43867, 43871>>,
      <<43881, 43883>>, <<44005, 44005>>, <<44008, 44008>>, <<44013, 44013>>,
      <<64286, 64286>>, <<64434, 64450>>, <<65024, 65039>>, <<65043, 65043>>,
      <<65056, 65071>>, <<65106, 65106>>, <<65109, 65109>>, <<65279, 65279>>,
      <<65287, 65287>>, <<65294, 65294>>, <<65306, 65306>>, <<65342, 65342>>,
      <<65344, 65344>>, <<65392, 65392>>, <<65438, 65439>>, <<65507, 65507>>,
      <<65529, 65531>>, <<66045, 66045>>, <<66272, 66272>>, <<66422, 66426>>,
      <<67456, 67461>>, <<67463, 67504>>, <<67506, 67514>>, <<68097, 68099>>,
      <<68101, 68102>>, <<68108, 68111>>, <<68152, 68154>>, <<68159, 68159>>,
      <<68325, 68326>>, <<68900, 68903>>, <<69291, 69292>>, <<69446, 69456>>,
      <<69506, 69509>>, <<69633, 69633>>, <<69688, 69702>>, <<69744, 69744>>,
      <<69747, 69748>>, <<69759, 69761>>, <<69811, 69814>>, <<69817, 69818>>,
      <<69821, 69821>>, <<69826, 69826>>, <<69837, 69837>>, <<69888, 69890>>,
      <<69927, 69931>>, <<69933, 69940>>, <<70003, 70003>>, <<70016, 70017>>,
      <<70070, 70078>>, <<70089, 70092>>, <<70095, 70095>>, <<70191, 70193>>,
      <<70196, 70196>>, <<70198, 70199>>, <<70206, 70206>>, <<70367, 70367>>,
      <<70371, 70378>>, <<70400, 70401>>, <<70459, 70460>>, <<70464, 70464>>,
      <<70502, 70508>>, <<70512, 70516>>, <<70712, 70719>>, <<70722, 70724>>,
      <<70726, 70726>>, <<70750, 70750>>, <<70835, 70840>>, <<70842, 70842>>,
      <<70847, 70848>>, <<70850, 70851>>, <<71090, 71093>>, <<71100, 71101>>,
      <<71103, 71104>>, <<71132, 71133>>, <<71219, 71226>>, <<71229, 71229>>,
      <<71231, 71232>>, <<71339, 71339>>, <<71341, 71341>>, <<71344, 71349>>,
      <<71351, 71351>>, <<71453, 71455>>, <<71458, 71461>>, <<71463, 71467>>,
      <<71727, 71735>>, <<71737, 71738>>, <<71995, 71996>>, <<71998, 71998>>,
      <<72003, 72003>>, <<72148, 72151>>, <<72154, 72155>>, <<72160, 72160>>,
      <<72193, 72202>>, <<72243, 72248>>, <<72251, 72254>>, <<72263, 72263>>,
      <<72273, 72278>>, <<72281, 72283>>, <<72330, 72342>>, <<72344, 72345>>,
      <<72752, 72758>>, <<72760, 72765>>, <<72767, 72767>>, <<72850, 72871>>,
      <<72874, 72880>>, <<72882, 72883>>, <<72885, 72886>>, <<73009, 73014>>,
      <<73018, 73018>>, <<73020, 73021>>, <<73023, 73029>>, <<73031, 73031>>,
      <<73104, 73105>>, <<73109, 73109>>, <<73111, 73111>>, <<73459, 73460>>,
      <<78896, 78904>>, <<92912, 92916>>, <<92976, 92982>>, <<92992, 92995>>,
      <<94031, 94031>>, <<94095, 94111>>, <<94176, 94177>>, <<94179, 94180>>,
      <<110576, 110579>>, <<110581, 110587>>, <<110589, 110590>>,
      <<113821, 113822>>, <<113824, 113827>>, <<118528, 118573>>,
      <<118576, 118598>>, <<119143, 119145>>, <<119155, 119170>>,
      <<119173, 119179>>, <<119210, 119213>>, <<119362, 119364>>,
      <<121344, 121398>>, <<121403, 121452>>, <<121461, 121461>>,
      <<121476, 121476>>, <<121499, 121503>>, <<121505, 121519>>,
      <<122880, 122886>>, <<122888, 122904>>, <<122907, 122913>>,
      <<122915, 122916>>, <<122918, 122922>>, <<123184, 123197>>,
      <<123566, 123566>>, <<123628, 123631>>, <<125136, 125142>>,
      <<125252, 125259>>, <<127995, 127999>>, <<917505, 917505>>,
      <<917536, 917631>>, <<917760, 917999>> }

\* The characters with the Unicode property Cased, as ranges.
CasedRanges ==
    {
      <<65, 90>>, <<97, 122>>, <<170, 170>>, <<181, 181>>, <<186, 186>>,
      <<192, 214>>, <<216, 246>>, <<248, 442>>, <<444, 447>>, <<452, 659>>,
      <<661, 696>>, <<704, 705>>, <<736, 740>>, <<837, 837>>, <<880, 883>>,
      <<886, 887>>, <<890, 893>>, <<895, 895>>, <<902, 902>>, <<904, 906>>,
      <<908, 908>>, <<910, 929>>, <<931, 1013>>, <<1015, 1153>>,
      <<1162, 1327>>, <<1329, 1366>>, <<1376, 1416>>, <<4256, 4293>>,
      <<4295, 4295>>, <<4301, 4301>>, <<4304, 4346>>, <<4349, 4351>>,
      <<5024, 5109>>, <<5112, 5117>>, <<7296, 7304>>, <<7312, 7354>>,
      <<7357, 7359>>, <<7424, 7615>>, <<7680, 7957>>, <<7960, 7965>>,
      <<7968, 8005>>, <<8008, 8013>>, <<8016, 8023>>, <<8025, 8025>>,
      <<8027, 8027>>, <<8029, 8029>>, <<8031, 8061>>, <<8064, 8116>>,
      <<8118, 8124>>, <<8126, 8126>>, <<8130, 8132>>, <<8134, 8140>>,
      <<8144, 8147>>, <<8150, 8155>>, <<8160, 8172>>, <<8178, 8180>>,
      <<8182, 8188>>, <<8305, 8305>>, <<8319, 8319>>, <<8336, 8348>>,
      <<8450, 8450>>, <<8455, 8455>>, <<8458, 8467>>, <<8469, 8469>>,
      <<8473, 8477>>, <<8484, 8484>>, <<8486, 8486>>, <<8488, 8488>>,
      <<8490, 8493>>, <<8495, 8500>>, <<8505, 8505>>, <<8508, 8511>>,
      <<8517, 8521>>, <<8526, 8526>>, <<8544, 8575>>, <<8579, 8580>>,
      <<9398, 9449>>, <<11264, 11492>>, <<11499, 11502>>, <<11506, 11507>>,
      <<11520, 11557>>, <<11559, 11559>>, <<11565, 11565>>, <<42560, 42605>>,
      <<42624, 42653>>, <<42786, 42887>>, <<42891, 42894>>, <<42896, 42954>>,
      <<42960, 42961>>, <<42963, 42963>>, <<42965, 42969>>, <<42997, 42998>>,
      <<43000, 43002>>, <<43824, 43866>>, <<43868, 43880>>, <<43888, 43967>>,
      <<64256, 64262>>, <<64275, 64279>>, <<65313, 65338>>, <<65345, 65370>>,
      <<66560, 66639>>, <<66736, 66771>>, <<66776, 66811>>, <<66928, 66938>>,
      <<66940, 66954>>, <<66956, 66962>>, <<66964, 66965>>, <<66967, 66977>>,
      <<66979, 66993>>, <<66995, 67001>>, <<67003, 67004>>, <<67456, 67456>>,
      <<67459, 67461>>, <<67463, 67504>>, <<67506, 67514>>, <<68736, 68786>>,
      <<68800, 68850>>, <<71840, 71903>>, <<93760, 93823>>,
      <<119808, 119892>>, <<119894, 119964>>, <<119966, 119967>>,
      <<119970, 119970>>, <<119973, 119974>>, <<119977, 119980>>,
      <<119982, 119993>>, <<119995, 119995>>, <<119997, 120003>>,
      <<120005, 120069>>, <<120071, 120074>>, <<120077, 120084>>,
      <<120086, 120092>>, <<120094, 120121>>, <<120123, 120126>>,
      <<120128, 120132>>, <<120134, 120134>>, <<120138, 120144>>,
      <<120146, 120485>>, <<120488, 120512>>, <<120514, 120538>>,
      <<120540, 120570>>, <<120572, 120596>>, <<120598, 120628>>,
      <<120630, 120654>>, <<120656, 120686>>, <<120688, 120712>>,
      <<120714, 120744>>, <<120746, 120770>>, <<120772, 120779>>,
      <<122624, 122633>>, <<122635, 122654>>, <<125184, 125251>>,
      <<127280, 127305>>, <<127312, 127337>>, <<127344, 127369>> }

IsCaseIgnorable(c) == InRanges(c, CaseIgnorableRanges)
IsCased(c) == InRanges(c, CasedRanges)

\* The lower-case form of one character, whatever surrounds it: U+0130
\* becomes i and U+0307, every other character one character.
lower_char(c) ==
    IF c = 304
    THEN <<105, 775>>
    ELSE LET hit(g) == g[1] <= c /\ c <= g[2] /\ (c - g[1]) % g[3] = 0
         IN  IF \E g \in LowerSegments : hit(g)
             THEN <<c + (CHOOSE g \in LowerSegments : hit(g))[4]>>
             ELSE <<c>>

\* Whether the capital sigma at s[i] ends a word: the nearest character
\* before it that is not case-ignorable is cased, and the nearest one after
\* it, if any, is not.
final_sigma(s, i) ==
    /\ \E j \in 1..(i - 1) :
        /\ ~IsCaseIgnorable(s[j])
        /\ IsCased(s[j])
        /\ \A k \in (j + 1)..(i - 1) : IsCaseIgnorable(s[k])
    /\ \A j \in (i + 1)..Len(s) :
        (/\ ~IsCaseIgnorable(s[j])
         /\ \A k \in (i + 1)..(j - 1) : IsCaseIgnorable(s[k])) => ~IsCased(s[j])

\* The lower-case form of s[i] within s: U+03A3 becomes U+03C2 at the end
\* of a word and U+03C3 elsewhere.
lower_at(s, i) ==
    IF s[i] = 931
    THEN IF final_sigma(s, i) THEN <<962>> ELSE <<963>>
    ELSE lower_char(s[i])

RECURSIVE lower_range(_, _, _)
lower_range(s, a, b) ==
    IF a > b THEN <<>>
    ELSE IF a = b THEN lower_at(s, a)
    ELSE LET m == (a + b) \div 2
         IN  lower_range(s, a, m) \o lower_range(s, m + 1, b)

\* A faulty variant of lower: the text is left as it is.
lower_omitted(s) == s

\* str.lower()
lower(s) == lower_range(s, 1, Len(s))

\* The characters c for which c.isprintable() is false, as ranges.
NonPrintableRanges ==
    {
      <<0, 31>>, <<127, 160>>, <<173, 173>>, <<888, 889>>, <<896, 899>>,
      <<907, 907>>, <<909, 909>>, <<930, 930>>, <<1328, 1328>>,
      <<1367, 1368>>, <<1419, 1420>>, <<1424, 1424>>, <<1480, 1487>>,
      <<1515, 1518>>, <<1525, 1541>>, <<1564, 1564>>, <<1757, 1757>>,
      <<1806, 1807>>, <<1867, 1868>>, <<1970, 1983>>, <<2043, 2044>>,
      <<2094, 2095>>, <<2111, 2111>>, <<2140, 2141>>, <<2143, 2143>>,
      <<2155, 2159>>, <<2191, 2199>>, <<2274, 2274>>, <<2436, 2436>>,
      <<2445, 2446>>, <<2449, 2450>>, <<2473, 2473>>, <<2481, 2481>>,
      <<2483, 2485>>, <<2490, 2491>>, <<2501, 2502>>, <<2505, 2506>>,
      <<2511, 2518>>, <<2520, 2523>>, <<2526, 2526>>, <<2532, 2533>>,
      <<2559, 2560>>, <<2564, 2564>>, <<2571, 2574>>, <<2577, 2578>>,
      <<2601, 2601>>, <<2609, 2609>>, <<2612, 2612>>, <<2615, 2615>>,
      <<2618, 2619>>, <<2621, 2621>>, <<2627, 2630>>, <<2633, 2634>>,
      <<2638, 2640>>, <<2642, 2648>>, <<2653, 2653>>, <<2655, 2661>>,
      <<2679, 2688>>, <<2692, 2692>>, <<2702, 2702>>, <<2706, 2706>>,
      <<2729, 2729>>, <<2737, 2737>>, <<2740, 2740>>, <<2746, 2747>>,
      <<2758, 2758>>, <<2762, 2762>>, <<2766, 2767>>, <<2769, 2783>>,
      <<2788, 2789>>, <<2802, 2808>>, <<2816, 2816>>, <<2820, 2820>>,
      <<2829, 2830>>, <<2833, 2834>>, <<2857, 2857>>, <<2865, 2865>>,
      <<2868, 2868>>, <<2874, 2875>>, <<2885, 2886>>, <<2889, 2890>>,
      <<2894, 2900>>, <<2904, 2907>>, <<2910, 2910>>, <<2916, 2917>>,
      <<2936, 2945>>, <<2948, 2948>>, <<2955, 2957>>, <<2961, 2961>>,
      <<2966, 2968>>, <<2971, 2971>>, <<2973, 2973>>, <<2976, 2978>>,
      <<2981, 2983>>, <<2987, 2989>>, <<3002, 3005>>, <<3011, 3013>>,
      <<3017, 3017>>, <<3022, 3023>>, <<3025, 3030>>, <<3032, 3045>>,
      <<3067, 3071>>, <<3085, 3085>>, <<3089, 3089>>, <<3113, 3113>>,
      <<3130, 3131>>, <<3141, 3141>>, <<3145, 3145>>, <<3150, 3156>>,
      <<3159, 3159>>, <<3163, 3164>>, <<3166, 3167>>, <<3172, 3173>>,
      <<3184, 3190>>, <<3213, 3213>>, <<3217, 3217>>, <<3241, 3241>>,
      <<3252, 3252>>, <<3258, 3259>>, <<3269, 3269>>, <<3273, 3273>>,
      <<3278, 3284>>, <<3287, 3292>>, <<3295, 3295>>, <<3300, 3301>>,
      <<3312, 3312>>, <<3315, 3327>>, <<3341, 3341>>, <<3345, 3345>>,
      <<3397, 3397>>, <<3401, 3401>>, <<3408, 3411>>, <<3428, 3429>>,
      <<3456, 3456>>, <<3460, 3460>>, <<3479, 3481>>, <<3506, 3506>>,
      <<3516, 3516>>, <<3518, 3519>>, <<3527, 3529>>, <<3531, 3534>>,
      <<3541, 3541>>, <<3543, 3543>>, <<3552, 3557>>, <<3568, 3569>>,
      <<3573, 3584>>, <<3643, 3646>>, <<3676, 3712>>, <<3715, 3715>>,
      <<3717, 3717>>, <<3723, 3723>>, <<3748, 3748>>, <<3750, 3750>>,
      <<3774, 3775>>, <<3781, 3781>>, <<3783, 3783>>, <<3790, 3791>>,
      <<3802, 3803>>, <<3808, 3839>>, <<3912, 3912>>, <<3949, 3952>>,
      <<3992, 3992>>, <<4029, 4029>>, <<4045, 4045>>, <<4059, 4095>>,
      <<4294, 4294>>, <<4296, 4300>>, <<4302, 4303>>, <<4681, 4681>>,
      <<4686, 4687>>, <<4695, 4695>>, <<4697, 4697>>, <<4702, 4703>>,
      <<4745, 4745>>, <<4750, 4751>>, <<4785, 4785>>, <<4790, 4791>>,
      <<4799, 4799>>, <<4801, 4801>>, <<4806, 4807>>, <<4823, 4823>>,
      <<4881, 4881>>, <<4886, 4887>>, <<4955, 4956>>, <<4989, 4991>>,
      <<5018, 5023>>, <<5110, 5111>>, <<5118, 5119>>, <<5760, 5760>>,
      <<5789, 5791>>, <<5881, 5887>>, <<5910, 5918>>, <<5943, 5951>>,
      <<5972, 5983>>, <<5997, 5997>>, <<6001, 6001>>, <<6004, 6015>>,
      <<6110, 6111>>, <<6122, 6127>>, <<6138, 6143>>, <<6158, 6158>>,
      <<6170, 6175>>, <<6265, 6271>>, <<6315, 6319>>, <<6390, 6399>>,
      <<6431, 6431>>, <<6444, 6447>>, <<6460, 6463>>, <<6465, 6467>>,
      <<6510, 6511>>, <<6517, 6527>>, <<6572, 6575>>, <<6602, 6607>>,
      <<6619, 6621>>, <<6684, 6685>>, <<6751, 6751>>, <<6781, 6782>>,
      <<6794, 6799>>, <<6810, 6815>>, <<6830, 6831>>, <<6863, 6911>>,
      <<6989, 6991>>, <<7039, 7039>>, <<7156, 7163>>, <<7224, 7226>>,
      <<7242, 7244>>, <<7305, 7311>>, <<7355, 7356>>, <<7368, 7375>>,
      <<7419, 7423>>, <<7958, 7959>>, <<7966, 7967>>, <<8006, 8007>>,
      <<8014, 8015>>, <<8024, 8024>>, <<8026, 8026>>, <<8028, 8028>>,
      <<8030, 8030>>, <<8062, 8063>>, <<8117, 8117>>, <<8133, 8133>>,
      <<8148, 8149>>, <<8156, 8156>>, <<8176, 8177>>, <<8181, 8181>>,
      <<8191, 8207>>, <<8232, 8239>>, <<8287, 8303>>, <<8306, 8307>>,
      <<8335, 8335>>, <<8349, 8351>>, <<8385, 8399>>, <<8433, 8447>>,
      <<8588, 8591>>, <<9255, 9279>>, <<9291, 9311>>, <<11124, 11125>>,
      <<11158, 11158>>, <<11508, 11512>>, <<11558, 11558>>, <<11560, 11564>>,
      <<11566, 11567>>, <<11624, 11630>>, <<11633, 11646>>, <<11671, 11679>>,
      <<11687, 11687>>, <<11695, 11695>>, <<11703, 11703>>, <<11711, 11711>>,
      <<11719, 11719>>, <<11727, 11727>>, <<11735, 11735>>, <<11743, 11743>>,
      <<11870, 11903>>, <<11930, 11930>>, <<12020, 12031>>, <<12246, 12271>>,
      <<12284, 12288>>, <<12352, 12352>>, <<12439, 12440>>, <<12544, 12548>>,
      <<12592, 12592>>, <<12687, 12687>>, <<12772, 12783>>, <<12831, 12831>>,
      <<42125, 42127>>, <<42183, 42191>>, <<42540, 42559>>, <<42744, 42751>>,
      <<42955, 42959>>, <<42962, 42962>>, <<42964, 42964>>, <<42970, 42993>>,
      <<43053, 43055>>, <<43066, 43071>>, <<43128, 43135>>, <<43206, 43213>>,
      <<43226, 43231>>, <<43348, 43358>>, <<43389, 43391>>, <<43470, 43470>>,
      <<43482, 43485>>, <<43519, 43519>>, <<43575, 43583>>, <<43598, 43599>>,
      <<43610, 43611>>, <<43715, 43738>>, <<43767, 43776>>, <<43783, 43784>>,
      <<43791, 43792>>, <<43799, 43807>>, <<43815, 43815>>, <<43823, 43823>>,
      <<43884, 43887>>, <<44014, 44015>>, <<44026, 44031>>, <<55204, 55215>>,
      <<55239, 55242>>, <<55292, 63743>>, <<64110, 64111>>, <<64218, 64255>>,
      <<64263, 64274>>, <<64280, 64284>>, <<64311, 64311>>, <<64317, 64317>>,
      <<64319, 64319>>, <<64322, 64322>>, <<64325, 64325>>, <<64451, 64466>>,
      <<64912, 64913>>, <<64968, 64974>>, <<64976, 65007>>, <<65050, 65055>>,
      <<65107, 65107>>, <<65127, 65127>>, <<65132, 65135>>, <<65141, 65141>>,
      <<65277, 65280>>, <<65471, 65473>>, <<65480, 65481>>, <<65488, 65489>>,
      <<65496, 65497>>, <<65501, 65503>>, <<65511, 65511>>, <<65519, 65531>>,
      <<65534, 65535>>, <<65548, 65548>>, <<65575, 65575>>, <<65595, 65595>>,
      <<65598, 65598>>, <<65614, 65615>>, <<65630, 65663>>, <<65787, 65791>>,
      <<65795, 65798>>, <<65844, 65846>>, <<65935, 65935>>, <<65949, 65951>>,
      <<65953, 65999>>, <<66046, 66175>>, <<66205, 66207>>, <<66257, 66271>>,
      <<66300, 66303>>, <<66340, 66348>>, <<66379, 66383>>, <<66427, 66431>>,
      <<66462, 66462>>, <<66500, 66503>>, <<66518, 66559>>, <<66718, 66719>>,
      <<66730, 66735>>, <<66772, 66775>>, <<66812, 66815>>, <<66856, 66863>>,
      <<66916, 66926>>, <<66939, 66939>>, <<66955, 66955>>, <<66963, 66963>>,
      <<66966, 66966>>, <<66978, 66978>>, <<66994, 66994>>, <<67002, 67002>>,
      <<67005, 67071>>, <<67383, 67391>>, <<67414, 67423>>, <<67432, 67455>>,
      <<67462, 67462>>, <<67505, 67505>>, <<67515, 67583>>, <<67590, 67591>>,
      <<67593, 67593>>, <<67638, 67638>>, <<67641, 67643>>, <<67645, 67646>>,
      <<67670, 67670>>, <<67743, 67750>>, <<67760, 67807>>, <<67827, 67827>>,
      <<67830, 67834>>, <<67868, 67870>>, <<67898, 67902>>, <<67904, 67967>>,
      <<68024, 68027>>, <<68048, 68049>>, <<68100, 68100>>, <<68103, 68107>>,
      <<68116, 68116>>, <<68120, 68120>>, <<68150, 68151>>, <<68155, 68158>>,
      <<68169, 68175>>, <<68185, 68191>>, <<68256, 68287>>, <<68327, 68330>>,
      <<68343, 68351>>, <<68406, 68408>>, <<68438, 68439>>, <<68467, 68471>>,
      <<68498, 68504>>, <<68509, 68520>>, <<68528, 68607>>, <<68681, 68735>>,
      <<68787, 68799>>, <<68851, 68857>>, <<68904, 68911>>, <<68922, 69215>>,
      <<69247, 69247>>, <<69290, 69290>>, <<69294, 69295>>, <<69298, 69375>>,
      <<69416, 69423>>, <<69466, 69487>>, <<69514, 69551>>, <<69580, 69599>>,
      <<69623, 69631>>, <<69710, 69713>>, <<69750, 69758>>, <<69821, 69821>>,
      <<69827, 69839>>, <<69865, 69871>>, <<69882, 69887>>, <<69941, 69941>>,
      <<69960, 69967>>, <<70007, 70015>>, <<70112, 70112>>, <<70133, 70143>>,
      <<70162, 70162>>, <<70207, 70271>>, <<70279, 70279>>, <<70281, 70281>>,
      <<70286, 70286>>, <<70302, 70302>>, <<70314, 70319>>, <<70379, 70383>>,
      <<70394, 70399>>, <<70404, 70404>>, <<70413, 70414>>, <<70417, 70418>>,
      <<70441, 70441>>, <<70449, 70449>>, <<70452, 70452>>, <<70458, 70458>>,
      <<70469, 70470>>, <<70473, 70474>>, <<70478, 70479>>, <<70481, 70486>>,
      <<70488, 70492>>, <<70500, 70501>>, <<70509, 70511>>, <<70517, 70655>>,
      <<70748, 70748>>, <<70754, 70783>>, <<70856, 70863>>, <<70874, 71039>>,
      <<71094, 71095>>, <<71134, 71167>>, <<71237, 71247>>, <<71258, 71263>>,
      <<71277, 71295>>, <<71354, 71359>>, <<71370, 71423>>, <<71451, 71452>>,
      <<71468, 71471>>, <<71495, 71679>>, <<71740, 71839>>, <<71923, 71934>>,
      <<71943, 71944>>, <<71946, 71947>>, <<71956, 71956>>, <<71959, 71959>>,
      <<71990, 71990>>, <<71993, 71994>>, <<72007, 72015>>, <<72026, 72095>>,
      <<72104, 72105>>, <<72152, 72153>>, <<72165, 72191>>, <<72264, 72271>>,
      <<72355, 72367>>, <<72441, 72703>>, <<72713, 72713>>, <<72759, 72759>>,
      <<72774, 72783>>, <<72813, 72815>>, <<72848, 72849>>, <<72872, 72872>>,
      <<72887, 72959>>, <<72967, 72967>>, <<72970, 72970>>, <<73015, 73017>>,
      <<73019, 73019>>, <<73022, 73022>>, <<73032, 73039>>, <<73050, 73055>>,
      <<73062, 73062>>, <<73065, 73065>>, <<73103, 73103>>, <<73106, 73106>>,
      <<73113, 73119>>, <<73130, 73439>>, <<73465, 73647>>, <<73649, 73663>>,
      <<73714, 73726>>, <<74650, 74751>>, <<74863, 74863>>, <<74869, 74879>>,
      <<75076, 77711>>, <<77811, 77823>>, <<78895, 82943>>, <<83527, 92159>>,
      <<92729, 92735>>, <<92767, 92767>>, <<92778, 92781>>, <<92863, 92863>>,
      <<92874, 92879>>, <<92910, 92911>>, <<92918, 92927>>, <<92998, 93007>>,
      <<93018, 93018>>, <<93026, 93026>>, <<93048, 93052>>, <<93072, 93759>>,
      <<93851, 93951>>, <<94027, 94030>>, <<94088, 94094>>, <<94112, 94175>>,
      <<94181, 94191>>, <<94194, 94207>>, <<100344, 100351>>,
      <<101590, 101631>>, <<101641, 110575>>, <<110580, 110580>>,
      <<110588, 110588>>, <<110591, 110591>>, <<110883, 110927>>,
      <<110931, 110947>>, <<110952, 110959>>, <<111356, 113663>>,
      <<113771, 113775>>, <<113789, 113791>>, <<113801, 113807>>,
      <<113818, 113819>>, <<113824, 118527>>, <<118574, 118575>>,
      <<118599, 118607>>, <<118724, 118783>>, <<119030, 119039>>,
      <<119079, 119080>>, <<119155, 119162>>, <<119275, 119295>>,
      <<119366, 119519>>, <<119540, 119551>>, <<119639, 119647>>,
      <<119673, 119807>>, <<119893, 119893>>, <<119965, 119965>>,
      <<119968, 119969>>, <<119971, 119972>>, <<119975, 119976>>,
      <<119981, 119981>>, <<119994, 119994>>, <<119996, 119996>>,
      <<120004, 120004>>, <<120070, 120070>>, <<120075, 120076>>,
      <<120085, 120085>>, <<120093, 120093>>, <<120122, 120122>>,
      <<120127, 120127>>, <<120133, 120133>>, <<120135, 120137>>,
      <<120145, 120145>>, <<120486, 120487>>, <<120780, 120781>>,
      <<121484, 121498>>, <<121504, 121504>>, <<121520, 122623>>,
      <<122655, 122879>>, <<122887, 122887>>, <<122905, 122906>>,
      <<122914, 122914>>, <<122917, 122917>>, <<122923, 123135>>,
      <<123181, 123183>>, <<123198, 123199>>, <<123210, 123213>>,
      <<123216, 123535>>, <<123567, 123583>>, <<123642, 123646>>,
      <<123648, 124895>>, <<124903, 124903>>, <<124908, 124908>>,
      <<124911, 124911>>, <<124927, 124927>>, <<125125, 125126>>,
      <<125143, 125183>>, <<125260, 125263>>, <<125274, 125277>>,
      <<125280, 126064>>, <<126133, 126208>>, <<126270, 126463>>,
      <<126468, 126468>>, <<126496, 126496>>, <<126499, 126499>>,
      <<126501, 126502>>, <<126504, 126504>>, <<126515, 126515>>,
      <<126520, 126520>>, <<126522, 126522>>, <<126524, 126529>>,
      <<126531, 126534>>, <<126536, 126536>>, <<126538, 126538>>,
      <<126540, 126540>>, <<126544, 126544>>, <<126547, 126547>>,
      <<126549, 126550>>, <<126552, 126552>>, <<126554, 126554>>,
      <<126556, 126556>>, <<126558, 126558>>, <<126560, 126560>>,
      <<126563, 126563>>, <<126565, 126566>>, <<126571, 126571>>,
      <<126579, 126579>>, <<126584, 126584>>, <<126589, 126589>>,
      <<126591, 126591>>, <<126602, 126602>>, <<126620, 126624>>,
      <<126628, 126628>>, <<126634, 126634>>, <<126652, 126703>>,
      <<126706, 126975>>, <<127020, 127023>>, <<127124, 127135>>,
      <<127151, 127152>>, <<127168, 127168>>, <<127184, 127184>>,
      <<127222, 127231>>, <<127406, 127461>>, <<127491, 127503>>,
      <<127548, 127551>>, <<127561, 127567>>, <<127570, 127583>>,
      <<127590, 127743>>, <<128728, 128732>>, <<128749, 128751>>,
      <<128765, 128767>>, <<128884, 128895>>, <<128985, 128991>>,
      <<129004, 129007>>, <<129009, 129023>>, <<129036, 129039>>,
      <<129096, 129103>>, <<129114, 129119>>, <<129160, 129167>>,
      <<129198, 129199>>, <<129202, 129279>>, <<129620, 129631>>,
      <<129646, 129647>>, <<129653, 129655>>, <<129661, 129663>>,
      <<129671, 129679>>, <<129709, 129711>>, <<129723, 129727>>,
      <<129734, 129743>>, <<129754, 129759>>, <<129768, 129775>>,
      <<129783, 129791>>, <<129939, 129939>>, <<129995, 130031>>,
      <<130042, 131071>>, <<173792, 173823>>, <<177977, 177983>>,
      <<178206, 178207>>, <<183970, 183983>>, <<191457, 194559>>,
      <<195102, 196607>>, <<201547, 917759>>, <<918000, 1114111>> }

\* n in hexadecimal, in width digits
hex(n, width) ==
    [i \in 1..width |->
        LET d == (n \div (16 ^ (width - i))) % 16
        IN  IF d < 10 THEN 48 + d ELSE 87 + d]

\* repr() of one character of a text quoted with q: the quote and the
\* backslash get a backslash, tab, newline and carriage return their letter,
\* every other non-printable character its code as \xNN, \uNNNN or
\* \UNNNNNNNN.
repr_char(c, q) ==
    CASE c = q \/ c = 92 -> <<92, c>>
      [] c = 9 -> <<92, 116>>
      [] c = 10 -> <<92, 110>>
      [] c = 13 -> <<92, 114>>
      [] OTHER ->
            IF ~InRanges(c, NonPrintableRanges) THEN <<c>>
            ELSE IF c < 256 THEN <<92, 120>> \o hex(c, 2)
            ELSE IF c < 65536 THEN <<92, 117>> \o hex(c, 4)
            ELSE <<92, 85>> \o hex(c, 8)

RECURSIVE repr_body(_, _)
repr_body(s, q) ==
    IF s = <<>> THEN <<>>
    ELSE IF Len(s) = 1 THEN repr_char(s[1], q)
    ELSE LET m == Len(s) \div 2
         IN  repr_body(SubSeq(s, 1, m), q) \o repr_body(SubSeq(s, m + 1, Len(s)), q)

\* repr() of a text: in single quotes, or in double quotes when it holds a
\* single quote and no double one
repr(s) ==
    LET has(c) == \E i \in 1..Len(s) : s[i] = c
        q == IF has(39) /\ ~has(34) THEN 34 ELSE 39
    IN  <<q>> \o repr_body(s, q) \o <<q>>

\* str(n) of a natural number n
RECURSIVE str(_)
str(n) == IF n < 10 THEN <<48 + n>> ELSE str(n \div 10) \o <<48 + (n % 10)>>

\* The characters int() skips before and after the number: the whitespace
\* characters but U+001C-U+001F.
IntSpace == Whitespace \ (28..31)

\* The characters of the Unicode category Nd, as ranges of whole decades:
\* int() reads each of them as the digit it stands for.
DecimalRanges ==
    {
      <<1632, 1641>>, <<1776, 1785>>, <<1984, 1993>>, <<2406, 2415>>,
      <<2534, 2543>>, <<2662, 2671>>, <<2790, 2799>>, <<2918, 2927>>,
      <<3046, 3055>>, <<3174, 3183>>, <<3302, 3311>>, <<3430, 3439>>,
      <<3558, 3567>>, <<3664, 3673>>, <<3792, 3801>>, <<3872, 3881>>,
      <<4160, 4169>>, <<4240, 4249>>, <<6112, 6121>>, <<6160, 6169>>,
      <<6470, 6479>>, <<6608, 6617>>, <<6784, 6793>>, <<6800, 6809>>,
      <<6992, 7001>>, <<7088, 7097>>, <<7232, 7241>>, <<7248, 7257>>,
      <<42528, 42537>>, <<43216, 43225>>, <<43264, 43273>>, <<43472, 43481>>,
      <<43504, 43513>>, <<43600, 43609>>, <<44016, 44025>>, <<65296, 65305>>,
      <<66720, 66729>>, <<68912, 68921>>, <<69734, 69743>>, <<69872, 69881>>,
      <<69942, 69951>>, <<70096, 70105>>, <<70384, 70393>>, <<70736, 70745>>,
      <<70864, 70873>>, <<71248, 71257>>, <<71360, 71369>>, <<71472, 71481>>,
      <<71904, 71913>>, <<72016, 72025>>, <<72784, 72793>>, <<73040, 73049>>,
      <<73120, 73129>>, <<92768, 92777>>, <<92864, 92873>>, <<93008, 93017>>,
      <<120782, 120831>>, <<123200, 123209>>, <<123632, 123641>>,
      <<125264, 125273>>, <<130032, 130041>> }

IsDecimal(c) == c \in 48..57 \/ InRanges(c, DecimalRanges)

\* How int(s) scans a text s: past the leading IntSpace and one sign
\* (start), the longest run of digits and underscores (up to stop), then
\* the trailing IntSpace (up to rest); digits is the number of digits of
\* the run.
int_scan(s) ==
    LET n == Len(s)
        a == CHOOSE i \in 1..(n + 1) :
                 /\ i = n + 1 \/ s[i] \notin IntSpace
                 /\ \A j \in 1..(i - 1) : s[j] \in IntSpace
        b == IF a <= n /\ s[a] \in {43, 45} THEN a + 1 ELSE a
        in_run(c) == c = 95 \/ IsDecimal(c)
        e == CHOOSE i \in b..(n + 1) :
                 /\ i = n + 1 \/ ~in_run(s[i])
                 /\ \A j \in b..(i - 1) : in_run(s[j])
        z == CHOOSE i \in e..(n + 1) :
                 /\ i = n + 1 \/ s[i] \notin IntSpace
                 /\ \A j \in e..(i - 1) : s[j] \in IntSpace
    IN  [start |-> b, stop |-> e, rest |-> z,
         digits |-> Cardinality({i \in b..(e - 1) : s[i] # 95})]

\* What int(s) does with a text s.  It is "invalid" when an underscore
\* starts or ends the run of digits or follows another underscore, "limit"
\* when the run has more than 4300 digits, "invalid" when the run is empty
\* or the text goes on after the trailing IntSpace, and "int" otherwise.
int_outcome(s) ==
    LET scan == int_scan(s)
        b == scan.start
        e == scan.stop
    IN  IF e > b /\ (s[b] = 95 \/ s[e - 1] = 95) THEN "invalid"
        ELSE IF \E i \in b..(e - 2) : s[i] = 95 /\ s[i + 1] = 95 THEN "invalid"
        ELSE IF scan.digits > 4300 THEN "limit"
        ELSE IF e = b THEN "invalid"
        ELSE IF scan.rest <= Len(s) THEN "invalid"
        ELSE "int"

\* Whether int(s) returns
int_parses(s) == int_outcome(s) = "int"

\* str(e) of the ValueError of int(s) for a text that is no number, up to
\* the text itself
\* "invalid literal for int() with base 10: "
IntErrorPrefix ==
    <<105, 110, 118, 97, 108, 105, 100, 32, 108, 105, 116, 101, 114, 97, 108,
      32, 102, 111, 114, 32, 105, 110, 116, 40, 41, 32, 119, 105, 116, 104,
      32, 98, 97, 115, 101, 32, 49, 48, 58, 32>>

\* str(e) of the ValueError of int(s) for a number of too many digits,
\* before and after the number of digits
\* "Exceeds the limit (4300 digits) for integer string conversion: value
\* has "
IntLimitPrefix ==
    <<69, 120, 99, 101, 101, 100, 115, 32, 116, 104, 101, 32, 108, 105, 109,
      105, 116, 32, 40, 52, 51, 48, 48, 32, 100, 105, 103, 105, 116, 115, 41,
      32, 102, 111, 114, 32, 105, 110, 116, 101, 103, 101, 114, 32, 115, 116,
      114, 105, 110, 103, 32, 99, 111, 110, 118, 101, 114, 115, 105, 111,
      110, 58, 32, 118, 97, 108, 117, 101, 32, 104, 97, 115, 32>>

\* " digits; use sys.set_int_max_str_digits() to increase the limit"
IntLimitSuffix ==
    <<32, 100, 105, 103, 105, 116, 115, 59, 32, 117, 115, 101, 32, 115, 121,
      115, 46, 115, 101, 116, 95, 105, 110, 116, 95, 109, 97, 120, 95, 115,
      116, 114, 95, 100, 105, 103, 105, 116, 115, 40, 41, 32, 116, 111, 32,
      105, 110, 99, 114, 101, 97, 115, 101, 32, 116, 104, 101, 32, 108, 105,
      109, 105, 116>>

\* str(e) of the ValueError int(s) raises: for a text that is no number,
\* the first 200 characters of repr(s) follow the prefix
int_error(s) ==
    IF int_outcome(s) = "limit"
    THEN IntLimitPrefix \o str(int_scan(s).digits) \o IntLimitSuffix
    ELSE LET r == repr(s)
         IN  IntErrorPrefix \o SubSeq(r, 1, Min(200, Len(r)))

\* The default of os.getenv("SAP_HANA_PORT", "39015")
\* "39015"
DefaultPort ==
    <<51, 57, 48, 49, 53>>

\* The refusal text of rule 9 of the synthesis prompt.
\* "ERROR: Operation not allowed. This assistant only supports read-only
\* SELECT queries."
RefusalSentinel ==
    <<69, 82, 82, 79, 82, 58, 32, 79, 112, 101, 114, 97, 116, 105, 111, 110,
      32, 110, 111, 116, 32, 97, 108, 108, 111, 119, 101, 100, 46, 32, 84,
      104, 105, 115, 32, 97, 115, 115, 105, 115, 116, 97, 110, 116, 32, 111,
      110, 108, 121, 32, 115, 117, 112, 112, 111, 114, 116, 115, 32, 114,
      101, 97, 100, 45, 111, 110, 108, 121, 32, 83, 69, 76, 69, 67, 84, 32,
      113, 117, 101, 114, 105, 101, 115, 46>>

\* "Failed to connect to SAP HANA database: "
ConnectPrefix ==
    <<70, 97, 105, 108, 101, 100, 32, 116, 111, 32, 99, 111, 110, 110, 101,
      99, 116, 32, 116, 111, 32, 83, 65, 80, 32, 72, 65, 78, 65, 32, 100, 97,
      116, 97, 98, 97, 115, 101, 58, 32>>

\* "Failed to execute query: "
ExecutePrefix ==
    <<70, 97, 105, 108, 101, 100, 32, 116, 111, 32, 101, 120, 101, 99, 117,
      116, 101, 32, 113, 117, 101, 114, 121, 58, 32>>

\* "Error processing query: "
ProcessPrefix ==
    <<69, 114, 114, 111, 114, 32, 112, 114, 111, 99, 101, 115, 115, 105, 110,
      103, 32, 113, 117, 101, 114, 121, 58, 32>>

\* "OPENAI_API_KEY not found in environment variables"
MissingKeyText ==
    <<79, 80, 69, 78, 65, 73, 95, 65, 80, 73, 95, 75, 69, 89, 32, 110, 111,
      116, 32, 102, 111, 117, 110, 100, 32, 105, 110, 32, 101, 110, 118, 105,
      114, 111, 110, 109, 101, 110, 116, 32, 118, 97, 114, 105, 97, 98, 108,
      101, 115>>

\* str(e) of the AttributeError raised by None.strip()
\* "'NoneType' object has no attribute 'strip'"
NoneStripText ==
    <<39, 78, 111, 110, 101, 84, 121, 112, 101, 39, 32, 111, 98, 106, 101,
      99, 116, 32, 104, 97, 115, 32, 110, 111, 32, 97, 116, 116, 114, 105,
      98, 117, 116, 101, 32, 39, 115, 116, 114, 105, 112, 39>>

\* str(e) of the TypeError raised by iterating over None
\* "'NoneType' object is not iterable"
NoneIterText ==
    <<39, 78, 111, 110, 101, 84, 121, 112, 101, 39, 32, 111, 98, 106, 101,
      99, 116, 32, 105, 115, 32, 110, 111, 116, 32, 105, 116, 101, 114, 97,
      98, 108, 101>>

\* "table"
table ==
    <<116, 97, 98, 108, 101>>
\* "bar_chart"
bar_chart ==
    <<98, 97, 114, 95, 99, 104, 97, 114, 116>>
\* "line_chart"
line_chart ==
    <<108, 105, 110, 101, 95, 99, 104, 97, 114, 116>>
\* "pie_chart"
pie_chart ==
    <<112, 105, 101, 95, 99, 104, 97, 114, 116>>

\* The Literal of QueryResponse.visualizationType, and the list of
\* _get_visualization_type.
VisualizationTypes == {table, bar_chart, line_chart, pie_chart}

----------------------------------------------------------------------------
(* What the collaborators may answer.                                      *)

\* "SELECT 1"
SelectText ==
    <<83, 69, 76, 69, 67, 84, 32, 49>>
\* "timeout"
TimeoutText ==
    <<116, 105, 109, 101, 111, 117, 116>>
\* "refused"
RefusedText ==
    <<114, 101, 102, 117, 115, 101, 100>>
\* "syntax"
SyntaxText ==
    <<115, 121, 110, 116, 97, 120>>

\* An answer of client.chat.completions.create: the call raises (content is
\* str(e)), or message.content is None, or message.content is a text.
Raises(msg) == [kind |-> "raise", content |-> msg]
NoContent == [kind |-> "none", content |-> <<>>]
Content(t) == [kind |-> "text", content |-> t]

SqlContents ==
    { SelectText,
      <<32, 10>> \o SelectText \o <<10>>,
      RefusalSentinel,
      RefusalSentinel \o <<10>>,
      <<>>,
      \* " \t\n"
      <<32, 9, 10>>,
      \* U+000B U+001C
      <<11, 28>>,
      \* U+001F U+2003 before, U+0085 U+00A0 after
      <<31, 8195>> \o SelectText \o <<133, 160>> }

VizContents ==
    { table,
      \* "Bar_Chart"
      <<66, 97, 114, 95, 67, 104, 97, 114, 116>>,
      \* " LINE_CHART\n"
      <<32, 76, 73, 78, 69, 95, 67, 72, 65, 82, 84, 10>>,
      \* "\tpie_chart \r\n"
      <<9>> \o pie_chart \o <<32, 13, 10>>,
      \* "pie_chart."
      pie_chart \o <<46>>,
      \* "bar chart"
      <<98, 97, 114, 32, 99, 104, 97, 114, 116>>,
      \* "Table\f"
      <<84, 97, 98, 108, 101, 12>>,
      \* U+000B before, U+001F after
      <<11>> \o pie_chart \o <<31>>,
      \* "PIE_CHART" with U+0130 for the I
      <<80, 304, 69, 95, 67, 72, 65, 82, 84>>,
      \* "PIE_CHART" and U+212A
      <<80, 73, 69, 95, 67, 72, 65, 82, 84, 8490>>,
      \* "TABLE" with U+00C9 for the E
      <<84, 65, 66, 76, 201>>,
      <<>> }

SummaryContents ==
    { <<111, 107>>,
      <<32, 111, 107, 10>>,
      <<>>,
      <<10, 32>>,
      \* U+000B U+001D U+3000
      <<11, 29, 12288>> }

Completions(contents) ==
    {Raises(TimeoutText), NoContent} \cup {Content(t) : t \in contents}

\* The environment of the process: OPENAI_API_KEY and SAP_HANA_PORT, each
\* unset (None) or set to a text.
ApiKeys == {None, Some(<<>>), Some(<<115, 107>>)}
Ports ==
    { None,
      Some(DefaultPort),
      \* " 30_015\n"
      Some(<<32, 51, 48, 95, 48, 49, 53, 10>>),
      \* "30015" in Arabic-Indic digits
      Some(<<1635, 1632, 1632, 1633, 1637>>),
      \* "abc"
      Some(<<97, 98, 99>>),
      Some(<<>>),
      \* "30'015"
      Some(<<51, 48, 39, 48, 49, 53>>),
      \* "42" between U+001C and U+001F
      Some(<<28, 52, 50, 31>>),
      \* "30015" and U+007F
      Some(<<51, 48, 48, 49, 53, 127>>),
      \* 199 times "z"
      Some([i \in 1..199 |-> 122]),
      \* 4301 times "1"
      Some([i \in 1..4301 |-> 49]) }

\* The questions put to the endpoint.
Questions == {"top 5 selling products", "delete all invoices for customer X"}

----------------------------------------------------------------------------
(* The result of a call: a value returned or an exception raised, with     *)
(* str(e) as its value.                                                    *)

Returned(v) == [raised |-> FALSE, value |-> v]
Raised(msg) == [raised |-> TRUE, value |-> msg]

\* response.choices[0].message.content.strip() on an answer r of the
\* completion service
content_strip(r) ==
    CASE r.kind = "raise" -> Raised(r.content)
      [] r.kind = "none" -> Raised(NoneStripText)
      [] OTHER -> Returned(strip(r.content))

\* _generate_sql_query, given the completion service's answer
_generate_sql_query(r) == content_strip(r)

\* A faulty variant of _generate_summary: a failed completion call is
\* absorbed into an empty summary.
_generate_summary_absorbing(r) ==
    IF r.kind = "raise" THEN Returned(<<>>) ELSE content_strip(r)

\* _generate_summary, given the completion service's answer
_generate_summary(r) == content_strip(r)

\* A variant of _get_visualization_type with the other policy: a failed
\* completion call degrades to table.
_get_visualization_type_defaulting(r) ==
    LET stripped == content_strip(r)
        viz == lower(stripped.value)
    IN  IF stripped.raised
        THEN Returned(table)
        ELSE Returned(IF viz \in VisualizationTypes THEN viz ELSE table)

\* _get_visualization_type, given the completion service's answer
_get_visualization_type(r) ==
    LET stripped == content_strip(r)
        viz == lower(stripped.value)
    IN  IF stripped.raised
        THEN stripped
        ELSE Returned(IF viz \in VisualizationTypes THEN viz ELSE table)

\* raise Exception(f"Error processing query: {str(e)}"), as the endpoint's
\* HTTPException(status_code=500, detail=str(e))
ProcessingError(e) == ProcessPrefix \o e

----------------------------------------------------------------------------
(* The invocation.                                                         *)

NoDb == [connOpened |-> 0, connClosed |-> 0,
         cursorOpened |-> 0, cursorClosed |-> 0, statements |-> <<>>]

\* The answers of the collaborators: the kind of the synthesis and summary
\* answers, the classifier's answer, str(e) of the driver's exception and
\* the rows fetchall returned.
NoRaw == [synth |-> None, viz |-> None, summary |-> None,
          driver |-> None, fetched |-> None]

Init ==
    /\ pc = "idle"
    /\ query = ""
    /\ execute_query = TRUE
    /\ sql_query = None
    /\ viz_type = None
    /\ results = None
    /\ error = None
    /\ response = None
    /\ failure = None
    /\ db = NoDb
    /\ columns = <<>>
    /\ rows = <<>>
    /\ calls = <<>>
    /\ raw = NoRaw

\* The except clause of process_query and of the endpoint: the request fails.
Abort(e) ==
    /\ pc' = "failed"
    /\ failure' = Some(ProcessingError(e))

\* os.getenv(name, default), given the variable's setting
getenv(setting, default) == IF setting = None THEN default ELSE setting[1]

\* SAPQueryAssistant(), given the settings of OPENAI_API_KEY and
\* SAP_HANA_PORT: "if not self.api_key" raises for an unset or empty key,
\* then int() raises for a port that is no integer.
SAPQueryAssistant(api_key, port) ==
    LET port_text == getenv(port, DefaultPort)
    IN  IF api_key = None \/ api_key = Some(<<>>)
        THEN Raised(MissingKeyText)
        ELSE IF int_parses(port_text)
             THEN Returned(<<>>)
             ELSE Raised(int_error(port_text))

\* POST /query: the endpoint builds a SAPQueryAssistant and calls
\* process_query; an exception of the constructor becomes the
\* HTTPException's detail.
Request ==
    /\ pc = "idle"
    /\ \E q \in Questions, x \in BOOLEAN, api_key \in ApiKeys, port \in Ports :
        LET assistant == SAPQueryAssistant(api_key, port)
        IN  /\ query' = q
            /\ execute_query' = x
            /\ IF assistant.raised
               THEN pc' = "failed" /\ failure' = Some(assistant.value)
               ELSE pc' = "generate" /\ UNCHANGED failure
    /\ UNCHANGED <<sql_query, viz_type, results, error, response, db,
                   columns, rows, calls, raw>>

\* sql_query = self._generate_sql_query(query)
Synthesize ==
    /\ pc = "generate"
    /\ \E r \in Completions(SqlContents) :
        LET got == _generate_sql_query(r)
        IN  /\ calls' = Append(calls, "Synthesizer")
            /\ raw' = [raw EXCEPT !.synth = Some(r.kind)]
            /\ IF got.raised
               THEN Abort(got.value) /\ UNCHANGED sql_query
               ELSE /\ sql_query' = Some(got.value)
                    /\ pc' = "classify"
                    /\ UNCHANGED failure
    /\ UNCHANGED <<query, execute_query, viz_type, results, error, response,
                   db, columns, rows>>

\* A faulty variant of AfterClassify: the flag is ignored.
AfterClassifyAlways(x) == "connect"

\* "if execute_query:" of process_query: the step after the classification
AfterClassify(x) == IF x THEN "connect" ELSE "summarize"

\* viz_type = self._get_visualization_type(query), then "if execute_query:"
Classify ==
    /\ pc = "classify"
    /\ \E r \in Completions(VizContents) :
        LET got == _get_visualization_type(r)
        IN  /\ calls' = Append(calls, "Classifier")
            /\ raw' = [raw EXCEPT !.viz = Some(r)]
            /\ IF got.raised
               THEN Abort(got.value) /\ UNCHANGED viz_type
               ELSE /\ viz_type' = Some(got.value)
                    /\ pc' = AfterClassify(execute_query)
                    /\ UNCHANGED failure
    /\ UNCHANGED <<query, execute_query, sql_query, results, error, response,
                   db, columns, rows>>

----------------------------------------------------------------------------
(* _execute_query, one driver call per step.                               *)

Names == {"A", "B"}

SeqsUpTo(S, n) == UNION {[1..k -> S] : k \in 0..n}

\* cursor.description: None (the statement produced no result set), or one
\* entry per column, the name first.
Descriptions ==
    {None} \cup {Some(d) : d \in SeqsUpTo(Names \X {"INT"}, MaxCols)}

\* The rows the data store holds for ncols columns: the values of a row
\* differ from column to column, ascending or descending.
RowsOf(ncols) ==
    {[j \in 1..ncols |-> j], [j \in 1..ncols |-> ncols + 1 - j]}

\* cursor.fetchall(): one tuple per row, one value per declared column.
RowSets(ncols) == SeqsUpTo(RowsOf(ncols), MaxRows)

\* zip(columns, row)
zip(a, b) == [i \in 1..Min(Len(a), Len(b)) |-> <<a[i], b[i]>>]

\* d[k] = v on a dict d, kept as the sequence of its items in insertion order
dict_setitem(d, k, v) ==
    IF \E i \in 1..Len(d) : d[i][1] = k
    THEN [i \in 1..Len(d) |-> IF d[i][1] = k THEN <<k, v>> ELSE d[i]]
    ELSE Append(d, <<k, v>>)

\* dict(pairs)
RECURSIVE dict(_)
dict(pairs) ==
    IF pairs = <<>>
    THEN <<>>
    ELSE LET n == Len(pairs)
         IN  dict_setitem(dict(SubSeq(pairs, 1, n - 1)), pairs[n][1], pairs[n][2])

\* _get_db_connection, given the outcome of dbapi.connect
_get_db_connection(c) ==
    IF c.raised THEN Raised(ConnectPrefix \o c.value) ELSE c

\* A faulty variant of ExecutionError: the cause is dropped.
ExecutionErrorNoCause(e) == ExecutePrefix

\* raise Exception(f"Failed to execute query: {str(e)}")
ExecutionError(e) == ExecutePrefix \o e

\* A faulty variant of ExecutorRaises: the exception is swallowed.
ExecutorRaisesSwallowed(e) ==
    /\ error' = error
    /\ pc' = "summarize"

\* The except clause of _execute_query, caught by process_query:
\* error = str(e), and results stays None.
ExecutorRaises(e) ==
    /\ error' = Some(ExecutionError(e))
    /\ pc' = "summarize"

\* A driver call: it returns, or raises with the given text.
DriverCall(msg) == {Returned(<<>>), Raised(msg)}

\* conn = self._get_db_connection()
Connect ==
    /\ pc = "connect"
    /\ calls' = Append(calls, "Executor")
    /\ \E c \in DriverCall(RefusedText) :
        LET got == _get_db_connection(c)
        IN  IF got.raised
            THEN /\ ExecutorRaises(got.value)
                 /\ raw' = [raw EXCEPT !.driver = Some(c.value)]
                 /\ UNCHANGED db
            ELSE /\ db' = [db EXCEPT !.connOpened = @ + 1]
                 /\ pc' = "cursor"
                 /\ UNCHANGED <<error, raw>>
    /\ UNCHANGED <<query, execute_query, sql_query, viz_type, results,
                   response, failure, columns, rows>>

\* cursor = conn.cursor()
OpenCursor ==
    /\ pc = "cursor"
    /\ \E c \in DriverCall(TimeoutText) :
        IF c.raised
        THEN /\ ExecutorRaises(c.value)
             /\ raw' = [raw EXCEPT !.driver = Some(c.value)]
             /\ UNCHANGED db
        ELSE /\ db' = [db EXCEPT !.cursorOpened = @ + 1]
             /\ pc' = "statement"
             /\ UNCHANGED <<error, raw>>
    /\ UNCHANGED <<query, execute_query, sql_query, viz_type, results,
                   response, failure, columns, rows, calls>>

\* cursor.execute(sql_query)
ExecuteStatement ==
    /\ pc = "statement"
    /\ db' = [db EXCEPT !.statements = Append(@, sql_query[1])]
    /\ \E c \in DriverCall(SyntaxText) :
        IF c.raised
        THEN /\ ExecutorRaises(c.value)
             /\ raw' = [raw EXCEPT !.driver = Some(c.value)]
        ELSE /\ pc' = "description"
             /\ UNCHANGED <<error, raw>>
    /\ UNCHANGED <<query, execute_query, sql_query, viz_type, results,
                   response, failure, columns, rows, calls>>

\* columns = [desc[0] for desc in cursor.description]
ReadDescription ==
    /\ pc = "description"
    /\ \E d \in Descriptions :
        IF d = None
        THEN /\ ExecutorRaises(NoneIterText)
             /\ raw' = [raw EXCEPT !.driver = Some(NoneIterText)]
             /\ UNCHANGED columns
        ELSE /\ columns' = [i \in 1..Len(d[1]) |-> d[1][i][1]]
             /\ pc' = "fetch"
             /\ UNCHANGED <<error, raw>>
    /\ UNCHANGED <<query, execute_query, sql_query, viz_type, results,
                   response, failure, db, rows, calls>>

\* for row in cursor.fetchall(): results.append(dict(zip(columns, row)))
FetchAll ==
    /\ pc = "fetch"
    /\ \/ /\ ExecutorRaises(TimeoutText)
          /\ raw' = [raw EXCEPT !.driver = Some(TimeoutText)]
          /\ UNCHANGED rows
       \/ \E fetched \in RowSets(Len(columns)) :
            /\ rows' = [i \in 1..Len(fetched) |-> dict(zip(columns, fetched[i]))]
            /\ raw' = [raw EXCEPT !.fetched = Some(fetched)]
            /\ pc' = "close_cursor"
            /\ UNCHANGED error
    /\ UNCHANGED <<query, execute_query, sql_query, viz_type, results,
                   response, failure, db, columns, calls>>

\* cursor.close()
CloseCursor ==
    /\ pc = "close_cursor"
    /\ \E c \in DriverCall(TimeoutText) :
        IF c.raised
        THEN /\ ExecutorRaises(c.value)
             /\ raw' = [raw EXCEPT !.driver = Some(c.value)]
             /\ UNCHANGED db
        ELSE /\ db' = [db EXCEPT !.cursorClosed = @ + 1]
             /\ pc' = "close_conn"
             /\ UNCHANGED <<error, raw>>
    /\ UNCHANGED <<query, execute_query, sql_query, viz_type, results,
                   response, failure, columns, rows, calls>>

\* conn.close(), then "return results": results = self._execute_query(sql_query)
CloseConnection ==
    /\ pc = "close_conn"
    /\ \E c \in DriverCall(TimeoutText) :
        IF c.raised
        THEN /\ ExecutorRaises(c.value)
             /\ raw' = [raw EXCEPT !.driver = Some(c.value)]
             /\ UNCHANGED <<db, results>>
        ELSE /\ db' = [db EXCEPT !.connClosed = @ + 1]
             /\ results' = Some(rows)
             /\ pc' = "summarize"
             /\ UNCHANGED <<error, raw>>
    /\ UNCHANGED <<query, execute_query, sql_query, viz_type, response,
                   failure, columns, rows, calls>>

----------------------------------------------------------------------------
(* The summary and the response.                                           *)

\* QueryResponse(sqlQuery=..., visualizationType=..., summary=..., results=..., error=...)
QueryResponse(sq, vt, sm, rs, er) ==
    [sqlQuery |-> sq, visualizationType |-> vt, summary |-> sm,
     results |-> rs, error |-> er]

\* The validation pydantic runs on construction: the Literal of
\* visualizationType (the other fields get values of their declared types).
Validates(r) == r.visualizationType \in VisualizationTypes

\* str(e) of pydantic's ValidationError for a visualizationType v outside
\* the Literal (the wording of pydantic 2.13)
\* "1 validation error for QueryResponse\nvisualizationType\n  Input
\* should be 'table', 'bar_chart', 'line_chart' or 'pie_chart'
\* [type=literal_error, input_value="
ValidationPrefix ==
    <<49, 32, 118, 97, 108, 105, 100, 97, 116, 105, 111, 110, 32, 101, 114,
      114, 111, 114, 32, 102, 111, 114, 32, 81, 117, 101, 114, 121, 82, 101,
      115, 112, 111, 110, 115, 101, 10, 118, 105, 115, 117, 97, 108, 105,
      122, 97, 116, 105, 111, 110, 84, 121, 112, 101, 10, 32, 32, 73, 110,
      112, 117, 116, 32, 115, 104, 111, 117, 108, 100, 32, 98, 101, 32, 39,
      116, 97, 98, 108, 101, 39, 44, 32, 39, 98, 97, 114, 95, 99, 104, 97,
      114, 116, 39, 44, 32, 39, 108, 105, 110, 101, 95, 99, 104, 97, 114,
      116, 39, 32, 111, 114, 32, 39, 112, 105, 101, 95, 99, 104, 97, 114,
      116, 39, 32, 91, 116, 121, 112, 101, 61, 108, 105, 116, 101, 114, 97,
      108, 95, 101, 114, 114, 111, 114, 44, 32, 105, 110, 112, 117, 116, 95,
      118, 97, 108, 117, 101, 61>>

\* ", input_type=str]\n    For further information visit
\* https://errors.pydantic.dev/2.13/v/literal_error"
ValidationSuffix ==
    <<44, 32, 105, 110, 112, 117, 116, 95, 116, 121, 112, 101, 61, 115, 116,
      114, 93, 10, 32, 32, 32, 32, 70, 111, 114, 32, 102, 117, 114, 116, 104,
      101, 114, 32, 105, 110, 102, 111, 114, 109, 97, 116, 105, 111, 110, 32,
      118, 105, 115, 105, 116, 32, 104, 116, 116, 112, 115, 58, 47, 47, 101,
      114, 114, 111, 114, 115, 46, 112, 121, 100, 97, 110, 116, 105, 99, 46,
      100, 101, 118, 47, 50, 46, 49, 51, 47, 118, 47, 108, 105, 116, 101,
      114, 97, 108, 95, 101, 114, 114, 111, 114>>

\* str(e) of pydantic's ValidationError for a visualizationType v that
\* holds a surrogate (the wording of pydantic 2.13)
\* "1 validation error for QueryResponse\nvisualizationType\n  Input
\* should be a valid string, unable to parse raw data as a unicode string
\* [type=string_unicode, input_value="
UnicodeErrorPrefix ==
    <<49, 32, 118, 97, 108, 105, 100, 97, 116, 105, 111, 110, 32, 101, 114,
      114, 111, 114, 32, 102, 111, 114, 32, 81, 117, 101, 114, 121, 82, 101,
      115, 112, 111, 110, 115, 101, 10, 118, 105, 115, 117, 97, 108, 105,
      122, 97, 116, 105, 111, 110, 84, 121, 112, 101, 10, 32, 32, 73, 110,
      112, 117, 116, 32, 115, 104, 111, 117, 108, 100, 32, 98, 101, 32, 97,
      32, 118, 97, 108, 105, 100, 32, 115, 116, 114, 105, 110, 103, 44, 32,
      117, 110, 97, 98, 108, 101, 32, 116, 111, 32, 112, 97, 114, 115, 101,
      32, 114, 97, 119, 32, 100, 97, 116, 97, 32, 97, 115, 32, 97, 32, 117,
      110, 105, 99, 111, 100, 101, 32, 115, 116, 114, 105, 110, 103, 32, 91,
      116, 121, 112, 101, 61, 115, 116, 114, 105, 110, 103, 95, 117, 110,
      105, 99, 111, 100, 101, 44, 32, 105, 110, 112, 117, 116, 95, 118, 97,
      108, 117, 101, 61>>

\* ", input_type=str]\n    For further information visit
\* https://errors.pydantic.dev/2.13/v/string_unicode"
UnicodeErrorSuffix ==
    <<44, 32, 105, 110, 112, 117, 116, 95, 116, 121, 112, 101, 61, 115, 116,
      114, 93, 10, 32, 32, 32, 32, 70, 111, 114, 32, 102, 117, 114, 116, 104,
      101, 114, 32, 105, 110, 102, 111, 114, 109, 97, 116, 105, 111, 110, 32,
      118, 105, 115, 105, 116, 32, 104, 116, 116, 112, 115, 58, 47, 47, 101,
      114, 114, 111, 114, 115, 46, 112, 121, 100, 97, 110, 116, 105, 99, 46,
      100, 101, 118, 47, 50, 46, 49, 51, 47, 118, 47, 115, 116, 114, 105,
      110, 103, 95, 117, 110, 105, 99, 111, 100, 101>>

\* The number of bytes of a character in UTF-8
utf8_len(c) ==
    IF c < 128 THEN 1 ELSE IF c < 2048 THEN 2 ELSE IF c < 65536 THEN 3 ELSE 4

\* The number of bytes of s[a..b] in UTF-8
RECURSIVE utf8_size(_, _, _)
utf8_size(s, a, b) ==
    IF a > b THEN 0
    ELSE IF a = b THEN utf8_len(s[a])
    ELSE LET m == (a + b) \div 2
         IN  utf8_size(s, a, m) + utf8_size(s, m + 1, b)

\* The input_value of pydantic's message: repr(v), and when that is longer
\* than 50 bytes its longest beginning of at most 25 bytes, three dots and
\* its longest end of at most 24 bytes.
input_value(v) ==
    LET r == repr(v)
        n == Len(r)
        h == CHOOSE k \in 0..Min(n, 25) :
                 /\ utf8_size(r, 1, k) <= 25
                 /\ k = n \/ utf8_size(r, 1, k + 1) > 25
        t == CHOOSE k \in 0..Min(n, 24) :
                 /\ utf8_size(r, n - k + 1, n) <= 24
                 /\ k = n \/ utf8_size(r, n - k, n) > 24
    IN  IF utf8_size(r, 1, n) > 50
        THEN SubSeq(r, 1, h) \o <<46, 46, 46>> \o SubSeq(r, n - t + 1, n)
        ELSE r

ValidationText(v) ==
    IF \E i \in 1..Len(v) : v[i] \in 55296..57343
    THEN UnicodeErrorPrefix \o input_value(v) \o UnicodeErrorSuffix
    ELSE ValidationPrefix \o input_value(v) \o ValidationSuffix

\* summary = self._generate_summary(query, sql_query, results); return QueryResponse(...)
Summarize ==
    /\ pc = "summarize"
    /\ calls' = Append(calls, "Summarizer")
    /\ \E r \in Completions(SummaryContents) :
        LET got == _generate_summary(r)
            built == QueryResponse(sql_query[1], viz_type[1], got.value, results, error)
        IN  /\ raw' = [raw EXCEPT !.summary = Some(r.kind)]
            /\ CASE got.raised ->
                        Abort(got.value) /\ UNCHANGED response
                  [] ~got.raised /\ ~Validates(built) ->
                        Abort(ValidationText(built.visualizationType)) /\ UNCHANGED response
                  [] OTHER ->
                        /\ response' = Some(built)
                        /\ pc' = "done"
                        /\ UNCHANGED failure
    /\ UNCHANGED <<query, execute_query, sql_query, viz_type, results, error,
                   db, columns, rows>>

Next ==
    \/ Request
    \/ Synthesize
    \/ Classify
    \/ Connect
    \/ OpenCursor
    \/ ExecuteStatement
    \/ ReadDescription
    \/ FetchAll
    \/ CloseCursor
    \/ CloseConnection
    \/ Summarize

Spec == Init /\ [][Next]_vars

----------------------------------------------------------------------------
(* Properties.                                                             *)

Terminal == pc \in {"done", "failed"}

Called(name) == \E i \in 1..Len(calls) : calls[i] = name

\* _execute_query has returned or raised in this invocation.
ExecutorLeft == Called("Executor") /\ pc \in {"summarize", "done", "failed"}

SynthesizerFailed == raw.synth = Some("raise")
ClassifierFailed == raw.viz # None /\ raw.viz[1].kind = "raise"
SummarizerFailed == raw.summary = Some("raise")

EndsWith(t, s) ==
    /\ Len(s) <= Len(t)
    /\ SubSeq(t, Len(t) - Len(s) + 1, Len(t)) = s

\* c is d, or the upper-case form A-Z of the letter d
SameLetter(c, d) == c = d \/ (c \in 65..90 /\ d = c + 32)

\* t is v in any letter case, with whitespace before and after it
PaddedCaseVariant(t, v) ==
    \E i \in 0..Len(t) :
        /\ i + Len(v) <= Len(t)
        /\ \A k \in 1..i : t[k] \in Whitespace
        /\ \A k \in 1..Len(v) : SameLetter(t[i + k], v[k])
        /\ \A k \in (i + Len(v) + 1)..Len(t) : t[k] \in Whitespace

\* C1: every Response returned has a non-empty sqlQuery, visualizationType
\* and summary, whatever text the completion service returned.
C1_ResponseComplete ==
    pc = "done" =>
        /\ response[1].sqlQuery # <<>>
        /\ response[1].visualizationType # <<>>
        /\ response[1].summary # <<>>

\* C2: when the generated query is the refusal sentinel and execution is
\* requested, no connection is opened and no statement is sent, and the
\* Response carries an error and no result rows.
C2_SentinelNotExecuted ==
    (execute_query /\ sql_query = Some(RefusalSentinel)) =>
        /\ db.connOpened = 0
        /\ db.statements = <<>>
        /\ pc = "done" => response[1].error # None /\ response[1].results = None

\* C3: when _execute_query returns or raises, every connection opened and
\* every cursor created has been closed exactly once.
C3_ResourcesReleased ==
    ExecutorLeft =>
        /\ db.connClosed = db.connOpened
        /\ db.cursorClosed = db.cursorOpened

\* C4, as stated: a failed completion call of the classifier does not turn
\* the request into a request failure.
C4_ClassifierFailureNotFatal ==
    ClassifierFailed => pc # "failed"

\* C4, amended: a failed completion call of the classifier propagates: the
\* request fails with no Response, the failure carries the call's text, and
\* neither the executor nor the summarizer is invoked.
C4_ClassifierFailurePropagates ==
    ClassifierFailed =>
        /\ pc = "failed"
        /\ response = None
        /\ failure = Some(ProcessPrefix \o raw.viz[1].content)
        /\ calls = <<"Synthesizer", "Classifier">>
        /\ db = NoDb

C4_Witness ==
    /\ ClassifierFailed
    /\ pc = "failed"
    /\ sql_query = Some(SelectText)

\* C5: the visualization type of every Response, and of every classification
\* that returned, is a member of the closed set: the member the raw text
\* spells once trimmed and lowercased, and table when it spells none.
C5_VisualizationNormalized ==
    /\ viz_type # None =>
        LET t == raw.viz[1].content
            v == viz_type[1]
        IN  /\ v \in VisualizationTypes
            /\ \A w \in VisualizationTypes : PaddedCaseVariant(t, w) => v = w
            /\ (\A w \in VisualizationTypes : ~PaddedCaseVariant(t, w)) => v = table
    /\ pc = "done" =>
        /\ viz_type # None
        /\ response[1].visualizationType = viz_type[1]

C5_Witness ==
    /\ pc = "done"
    /\ raw.viz[1].content = <<32, 76, 73, 78, 69, 95, 67, 72, 65, 82, 84,
      10>>
    /\ response[1].visualizationType = line_chart

\* C6: results and error are never both present in a Response; without
\* execution both are absent and the data store is never contacted; with
\* execution exactly one is present, results when the executor returned and
\* error when it raised.
C6_ResultsErrorExclusive ==
    /\ (pc # "idle" /\ ~execute_query) => db = NoDb /\ ~Called("Executor")
    /\ pc = "done" =>
        LET r == response[1]
        IN  /\ ~(r.results # None /\ r.error # None)
            /\ ~execute_query => r.results = None /\ r.error = None
            /\ execute_query =>
                /\ (r.results # None) # (r.error # None)
                /\ (r.error # None) <=> (raw.driver # None)
                /\ (r.results # None) <=> (raw.fetched # None /\ db.connClosed = 1)

C6_Witness ==
    /\ pc = "done"
    /\ execute_query
    /\ response[1].results = Some(<<>>)
    /\ response[1].error = None

\* C7: a failure of the data store is absorbed: the executor's error text
\* ends with the driver's text, results stays absent, the summarizer is
\* still invoked, and when it succeeds the Response carries the generated
\* query, a visualization type, a summary and that error.
C7_ExecutionFailureAbsorbed ==
    (ExecutorLeft /\ raw.driver # None) =>
        /\ error # None
        /\ EndsWith(error[1], raw.driver[1])
        /\ SubSeq(error[1], 1, Len(ExecutePrefix)) = ExecutePrefix
        /\ results = None
        /\ pc = "failed" => raw.summary \in {Some("raise"), Some("none")}
        /\ raw.summary = Some("text") =>
            /\ pc = "done"
            /\ response[1].sqlQuery = sql_query[1]
            /\ response[1].visualizationType \in VisualizationTypes
            /\ response[1].results = None
            /\ response[1].error = error

C7_Witness ==
    /\ pc = "done"
    /\ raw.driver = Some(RefusedText)
    /\ response[1].error = Some(ExecutePrefix \o ConnectPrefix \o RefusedText)
    /\ response[1].results = None

\* C8: a failed completion call of the synthesizer or of the summarizer ends
\* the request in a failure with no Response, also after rows were fetched;
\* after a failed synthesis no other component is invoked.
C8_GenerationFailureFatal ==
    /\ SynthesizerFailed =>
        /\ pc = "failed"
        /\ response = None
        /\ failure # None
        /\ calls = <<"Synthesizer">>
        /\ db = NoDb
    /\ SummarizerFailed =>
        /\ pc = "failed"
        /\ response = None
        /\ failure # None

C8_Witness ==
    /\ SummarizerFailed
    /\ pc = "failed"
    /\ results # None
    /\ Len(results[1]) = MaxRows

\* C9: on successful execution there is one record per fetched row, in fetch
\* order, and every record holds one (name, value) entry per declared
\* column, in declared order, duplicate names included.
C9_OneEntryPerColumn ==
    results # None =>
        /\ Len(results[1]) = Len(raw.fetched[1])
        /\ \A i \in 1..Len(results[1]) :
            /\ Len(results[1][i]) = Len(columns)
            /\ \A j \in 1..Len(results[1][i]) :
                results[1][i][j] = <<columns[j], raw.fetched[1][i][j]>>

Rank(name) ==
    CASE name = "Synthesizer" -> 1
      [] name = "Classifier" -> 2
      [] name = "Executor" -> 3
      [] name = "Summarizer" -> 4

\* C10: the external calls of one invocation occur in the order Synthesizer,
\* Classifier, Executor, Summarizer, each at most once; the Executor only
\* when execution was requested; at most one statement is sent; and the
\* Summarizer is invoked whenever synthesis and classification succeeded.
C10_CallOrder ==
    /\ \A i, j \in 1..Len(calls) : i < j => Rank(calls[i]) < Rank(calls[j])
    /\ Called("Classifier") => calls[1] = "Synthesizer"
    /\ Called("Executor") =>
        execute_query /\ calls[2] = "Classifier"
    /\ Len(db.statements) <= 1
    /\ db.connOpened <= 1
    /\ (Terminal /\ sql_query # None /\ viz_type # None) =>
        calls[Len(calls)] = "Summarizer"

C10_Witness ==
    /\ pc = "done"
    /\ calls = <<"Synthesizer", "Classifier", "Executor", "Summarizer">>
    /\ db.statements = <<SelectText>>
    /\ error # None
====
